---------------------------- MODULE Spec2Model ----------------------------
(***************************************************************************)
(* Model of mod-net/chain scripts: the multisig derivation of              *)
(* scripts/key_tools.py and scripts/init_network.py, and the Key vault     *)
(* (Key.encrypt / Key.decrypt / Key.save / Key.load) of key_tools.py.      *)
(*                                                                         *)
(* Python values are modelled as follows.                                  *)
(*   bytes        sequences of integers 0..255                             *)
(*   str | None   tagged records, Str(s) and None                          *)
(*   exceptions   a function returns [exc |-> name, ...]; exc = "none"     *)
(*                means the call returned                                  *)
(* The external primitives (blake2b, scrypt, AES-GCM, os.urandom) are      *)
(* modelled as ideal primitives: the digest, the derived key and the       *)
(* sealed box are terms over their inputs, and os.urandom never returns    *)
(* the same string twice.                                                  *)
(***************************************************************************)
EXTENDS Integers, Sequences, FiniteSets, TLC

VARIABLES
    \* ---- multisig commands -------------------------------------------
    ms_signers,      \* --signer list of the last multisig command
    ms_threshold,    \* --threshold of the last multisig command
    ms_prefix,       \* --ss58-prefix of the last multisig command
    ms_key_tools,    \* what key_tools.multisig_address did on these arguments
    ms_init_network, \* what init_network.multisig_address did on them
    ms_prev,         \* signers and key_tools result of the run before a reordered re-run
    ms_op,           \* the last command
    \* ---- the key vault --------------------------------------------------
    v_file,          \* the key file: whether it exists, and its text
    v_saved,         \* the Key and password of the last save that wrote the file
    v_tamper,        \* what was done to the file since that save ("none": nothing)
    v_out,           \* the last command: its arguments, and what it returned or raised
    v_stdout,        \* the dict the last command printed (None: nothing)
    v_draws,         \* os.urandom calls so far
    v_enc_log,       \* per Key.encrypt call so far: the salt, key and nonce it used
    \* ---- concurrent Key.save / Key.load on one path ------------------------
    f_prior,         \* the file before the saves
    f_job,           \* per saver: the Key it saves and its password
    f_pc,            \* per saver: where it is in Key.save
    f_text,          \* per saver: json.dump's text of its blob, once encrypted
    f_buf,           \* per saver: the text in its file object's buffer
    f_load,          \* the last Key.load: the text it read, what it returned or raised
    \* ---- one Key object ------------------------------------------------------
    k_key,           \* the object's fields (NoKey: not constructed)
    k_first,         \* the first value each of its two public fields was set to
    k_op,            \* the last operation on it
    k_exc            \* what that operation raised ("none": it returned)

ms_vars == <<ms_signers, ms_threshold, ms_prefix, ms_key_tools,
             ms_init_network, ms_prev, ms_op>>
v_vars == <<v_saved, v_tamper, v_out, v_stdout, v_enc_log>>
fs_vars == <<v_file, v_draws>>
f_vars == <<f_prior, f_job, f_pc, f_text, f_buf, f_load>>
k_vars == <<k_key, k_first, k_op, k_exc>>

vars == <<ms_vars, v_vars, fs_vars, f_vars, k_vars>>

-----------------------------------------------------------------------------
(* Bounds of the model *)

\* longest --signer list
MaxSigners == 3
\* Key.encrypt calls in one run
MaxEncrypts == 2

(* Program constants *)

\* bytes per AccountId32 public key
AccountIdLen == 32
\* threshold.to_bytes(2, ...)
ThresholdBytes == 2
\* blake2b(digest_size=32)
DigestSize == 32
\* default --ss58-prefix, and init_network's default ss58_prefix
DefaultSs58Prefix == 42

-----------------------------------------------------------------------------
(* bytes *)

Byte == 0 .. 255

RECURSIVE Pow(_, _)
Pow(b, e) == IF e = 0 THEN 1 ELSE b * Pow(b, e - 1)

\* Python's ordering of bytes objects: lexicographic on unsigned byte values,
\* a proper prefix first.
RECURSIVE BytesLess(_, _)
BytesLess(a, b) ==
    IF b = <<>> THEN FALSE
    ELSE IF a = <<>> THEN TRUE
    ELSE IF a[1] # b[1] THEN a[1] < b[1]
    ELSE BytesLess(Tail(a), Tail(b))

\* x put into the ascending list s after every element that is not greater
InsertSorted(x, s) ==
    LET after == {i \in 1 .. Len(s) : BytesLess(x, s[i])}
        pos == IF after = {} THEN Len(s) + 1
               ELSE CHOOSE i \in after : \A j \in after : i <= j
    IN  SubSeq(s, 1, pos - 1) \o <<x>> \o SubSeq(s, pos, Len(s))

\* a mutation of list_sort: the list is left in the caller's order
list_sort_unsorted(l) == l

\* list.sort() on a list of bytes: ascending, stable
\* a mutation of list_sort: equal elements are kept once
RECURSIVE list_sort_deduplicated(_)
list_sort_deduplicated(l) ==
    IF l = <<>> THEN <<>>
    ELSE LET rest == list_sort_deduplicated(Tail(l)) IN
         IF \E i \in 1 .. Len(rest) : rest[i] = Head(l) THEN rest
         ELSE InsertSorted(Head(l), rest)

RECURSIVE list_sort(_)
list_sort(l) ==
    IF l = <<>> THEN <<>>
    ELSE InsertSorted(l[Len(l)], list_sort(SubSeq(l, 1, Len(l) - 1)))

\* bytes.hex(): two hexadecimal digits (0..15) per byte, high digit first
bytes_hex(b) ==
    [i \in 1 .. 2 * Len(b) |->
        IF i % 2 = 1 THEN b[(i + 1) \div 2] \div 16 ELSE b[i \div 2] % 16]

\* bytes.fromhex()
bytes_fromhex(h) ==
    [i \in 1 .. Len(h) \div 2 |-> 16 * h[2 * i - 1] + h[2 * i]]

\* int.to_bytes(length, "little") of an int in range
to_bytes_little(n, length) ==
    [i \in 1 .. length |-> (n \div Pow(256, i - 1)) % 256]

\* int.to_bytes raises OverflowError on a negative int and on one that does
\* not fit in length bytes
to_bytes_overflows(n, length) == n < 0 \/ n >= Pow(256, length)

RECURSIVE Concat(_)
Concat(ss) == IF ss = <<>> THEN <<>> ELSE Head(ss) \o Concat(Tail(ss))

-----------------------------------------------------------------------------
(* SS58 addresses and the digest (substrateinterface, hashlib) *)

\* An SS58 address: the network prefix, the account bytes it encodes and
\* whether its checksum is the one of these bytes.
Ss58(format, account, ok) ==
    [ss58_format |-> format, account |-> account, checksum_ok |-> ok]

\* ss58_decode(address): the account as a hexadecimal string, whatever the
\* prefix; ValueError on a bad checksum.
ss58_decode_raises(address) == ~address.checksum_ok
ss58_decode(address) == bytes_hex(address.account)

\* ss58_encode raises ValueError for a format outside 0..16383 and for the
\* reserved formats 46 and 47.
ss58_encode_raises(format) ==
    format < 0 \/ format > 16383 \/ format \in {46, 47}
ss58_encode(account_hex, format) == Ss58(format, account_hex, TRUE)

\* blake2b(digest_size=32) over the bytes fed to update(), as an ideal hash:
\* the digest is a term over the input, so equal digests mean equal inputs.
blake2b(data) == [digest_size |-> DigestSize, data |-> data, enc |-> "raw"]
\* digest.hex()
digest_hex(d) == [d EXCEPT !.enc = "hex"]

NoDigest == [digest_size |-> 0, data |-> <<>>, enc |-> "none"]
NoAddress == Ss58(-1, NoDigest, FALSE)

-----------------------------------------------------------------------------
(* multisig_address, in key_tools.py and in init_network.py *)

\* b"modlpy/utilisig"
tag == <<109, 111, 100, 108, 112, 121, 47, 117, 116, 105, 108, 105, 115, 105, 103>>

\* the bytes fed to the hash: tag, the sorted signer keys, the threshold
digest_input(signers, threshold) ==
    LET signer_pubkeys ==
            list_sort([i \in 1 .. Len(signers) |->
                          bytes_fromhex(ss58_decode(signers[i]))])
        thr_le == to_bytes_little(threshold, ThresholdBytes)
    IN  tag \o Concat(signer_pubkeys) \o thr_le

\* the exception multisig_address raises on these arguments, "none" if none
multisig_raises(signers, threshold, ss58_prefix) ==
    IF \E i \in 1 .. Len(signers) : ss58_decode_raises(signers[i])
        THEN "ValueError"
    ELSE IF to_bytes_overflows(threshold, ThresholdBytes) THEN "OverflowError"
    ELSE IF ss58_encode_raises(ss58_prefix) THEN "ValueError"
    ELSE "none"

\* key_tools.multisig_address: {"account_id_hex": ..., "ss58_address": ...}
key_tools_multisig_address(signers, threshold, ss58_prefix) ==
    LET exc == multisig_raises(signers, threshold, ss58_prefix) IN
    IF exc # "none"
        THEN [exc |-> exc, account_id_hex |-> NoDigest, ss58_address |-> NoAddress]
    ELSE LET account_id == blake2b(digest_input(signers, threshold)) IN
         [exc |-> "none",
          account_id_hex |-> digest_hex(account_id),
          ss58_address |-> ss58_encode(digest_hex(account_id), ss58_prefix)]

\* a mutation of init_network.multisig_address: the threshold is encoded
\* big-endian
init_network_multisig_address_big_endian(signers, threshold, ss58_prefix) ==
    LET exc == multisig_raises(signers, threshold, ss58_prefix) IN
    IF exc # "none"
        THEN [exc |-> exc, ss58_address |-> NoAddress]
    ELSE LET data == digest_input(signers, threshold)
             n == Len(data)
             acct == blake2b([i \in 1 .. n |->
                                 IF i = n - 1 THEN data[n]
                                 ELSE IF i = n THEN data[n - 1]
                                 ELSE data[i]])
         IN  [exc |-> "none",
              ss58_address |-> ss58_encode(digest_hex(acct), ss58_prefix)]

\* init_network.multisig_address: the address alone
init_network_multisig_address(signers, threshold, ss58_prefix) ==
    LET exc == multisig_raises(signers, threshold, ss58_prefix) IN
    IF exc # "none"
        THEN [exc |-> exc, ss58_address |-> NoAddress]
    ELSE LET acct == blake2b(digest_input(signers, threshold)) IN
         [exc |-> "none",
          ss58_address |-> ss58_encode(digest_hex(acct), ss58_prefix)]

NotCalled == [exc |-> "not called", account_id_hex |-> NoDigest,
              ss58_address |-> NoAddress]
NoPrev == [signers |-> <<>>, result |-> NotCalled]
InitNotCalled == [exc |-> "not called", ss58_address |-> NoAddress]

-----------------------------------------------------------------------------
(* The inputs of the multisig commands *)

\* a 32-byte public key that differs from the others in its first and last byte
PublicKey(first, last) ==
    [i \in 1 .. AccountIdLen |->
        IF i = 1 THEN first ELSE IF i = AccountIdLen THEN last ELSE 0]

\* Signer addresses: three keys whose byte order differs from their order as
\* signed bytes, one of them also under another network prefix, and one
\* address with a bad checksum.
SignerPool ==
    { Ss58(42, PublicKey(1, 255), TRUE),
      Ss58(42, PublicKey(200, 0), TRUE),
      Ss58(42, PublicKey(1, 2), TRUE),
      Ss58(0, PublicKey(200, 0), TRUE),
      Ss58(42, PublicKey(7, 7), FALSE) }

RECURSIVE SeqsUpTo(_, _)
SeqsUpTo(S, n) ==
    IF n = 0 THEN {<<>>}
    ELSE LET shorter == SeqsUpTo(S, n - 1) IN
         shorter \cup {Append(s, x) : s \in {t \in shorter : Len(t) = n - 1}, x \in S}

SignerLists == SeqsUpTo(SignerPool, MaxSigners)

\* argparse gives --threshold as an int: below, inside and above 1..|signers|,
\* and around the two-byte range
Thresholds ==
    (-1 .. MaxSigners + 1)
        \cup {Pow(256, ThresholdBytes) - 1, Pow(256, ThresholdBytes)}

Prefixes == {0, DefaultSs58Prefix, 46}

\* the permutations of 1..n
Perms(n) == {p \in [1 .. n -> 1 .. n] : \A i, j \in 1 .. n : p[i] = p[j] => i = j}
Permuted(s, p) == [i \in 1 .. Len(s) |-> s[p[i]]]

-----------------------------------------------------------------------------
(* The multisig commands *)

\* key_tools.py multisig --threshold T --signer ... --ss58-prefix P
\* (--signer is required: at least one)
cmd_multisig ==
    /\ ms_op \in {"none", "init_network_main"}
    /\ ms_key_tools = NotCalled
    /\ ms_key_tools' = key_tools_multisig_address(ms_signers, ms_threshold, ms_prefix)
    /\ ms_op' = "cmd_multisig"
    /\ UNCHANGED <<ms_signers, ms_threshold, ms_prefix, ms_init_network, ms_prev>>
    /\ UNCHANGED <<v_vars, fs_vars, f_vars, k_vars>>

\* the same command run again with the same signers in another order
cmd_multisig_reordered ==
    /\ ms_op = "cmd_multisig"
    /\ \E p \in Perms(Len(ms_signers)) :
        /\ ms_signers' = Permuted(ms_signers, p)
        /\ ms_key_tools' =
              key_tools_multisig_address(ms_signers', ms_threshold, ms_prefix)
    /\ ms_prev' = [signers |-> ms_signers, result |-> ms_key_tools]
    /\ ms_op' = "cmd_multisig_reordered"
    /\ UNCHANGED <<ms_threshold, ms_prefix, ms_init_network>>
    /\ UNCHANGED <<v_vars, fs_vars, f_vars, k_vars>>

\* init_network.py --signer ... --threshold T: main() exits on a missing or
\* zero threshold, and otherwise computes the sudo key with the default prefix
init_network_main ==
    /\ ms_op \in {"none", "cmd_multisig"}
    /\ ms_init_network = InitNotCalled
    /\ ms_init_network' =
          IF ms_threshold = 0
              THEN [exc |-> "SystemExit", ss58_address |-> NoAddress]
          ELSE init_network_multisig_address(ms_signers, ms_threshold,
                                             DefaultSs58Prefix)
    /\ ms_op' = "init_network_main"
    /\ UNCHANGED <<ms_signers, ms_threshold, ms_prefix, ms_key_tools, ms_prev>>
    /\ UNCHANGED <<v_vars, fs_vars, f_vars, k_vars>>

-----------------------------------------------------------------------------
(* Python values of the vault: str, None, int, dict *)

\* A str is a sequence of characters. A character is a word of text
\* ([t |-> "chr"]) or one base64 group of four symbols ([t |-> "b64"]).
Chr(a) == [t |-> "chr", v |-> a]
Str(chars) == [t |-> "str", v |-> chars]
Text(a) == Str(<<Chr(a)>>)
None == [t |-> "none", v |-> <<>>]
PyInt(n) == [t |-> "int", v |-> n]
\* a dict keeps its items in insertion order: a sequence of <<name, value>>
Dict(items) == [t |-> "dict", v |-> items]

\* d[name] exists
dict_has(d, name) == \E i \in 1 .. Len(d.v) : d.v[i][1] = name
\* d.get(name, default)
dict_get(d, name, default) ==
    IF dict_has(d, name)
        THEN LET i == CHOOSE i \in 1 .. Len(d.v) :
                        /\ d.v[i][1] = name
                        /\ \A j \in i + 1 .. Len(d.v) : d.v[j][1] # name
             IN  d.v[i][2]
    ELSE default
\* d without its item name
dict_del(d, name) ==
    Dict(SelectSeq(d.v, LAMBDA item : item[1] # name))
\* d with d[name] = value: replaced in place, or added at the end
dict_set(d, name, value) ==
    IF dict_has(d, name)
        THEN Dict([i \in 1 .. Len(d.v) |->
                      IF d.v[i][1] = name THEN <<name, value>> ELSE d.v[i]])
    ELSE Dict(Append(d.v, <<name, value>>))

-----------------------------------------------------------------------------
(* json.dumps / json.loads, on texts that are sequences of JSON tokens *)

Punct(c) == [t |-> "punct", v |-> c]
Lit(w) == [t |-> "lit", v |-> w]
Num(n) == [t |-> "num", v |-> n]
IsPunct(tok, c) == tok.t = "punct" /\ tok.v = c

RECURSIVE json_dumps(_)
RECURSIVE json_dumps_items(_)
\* the items of an object, separated by commas
json_dumps_items(items) ==
    IF items = <<>> THEN <<>>
    ELSE <<Punct("\""), Chr(items[1][1]), Punct("\""), Punct(":")>>
         \o json_dumps(items[1][2])
         \o (IF Len(items) = 1 THEN <<>> ELSE <<Punct(",")>>)
         \o json_dumps_items(Tail(items))

\* json.dumps(x)
json_dumps(x) ==
    IF x.t = "none" THEN <<Lit("null")>>
    ELSE IF x.t = "int" THEN <<Num(x.v)>>
    ELSE IF x.t = "str" THEN <<Punct("\"")>> \o x.v \o <<Punct("\"")>>
    ELSE <<Punct("{")>> \o json_dumps_items(x.v) \o <<Punct("}")>>

\* The parser's results: the value read and the position after it.
Parsed(val, next) == [ok |-> TRUE, val |-> val, next |-> next]
ParseError == [ok |-> FALSE, val |-> None, next |-> 0]

\* the position of the first punctuation token at or after i, 0 if none
NextPunct(toks, i) ==
    LET ps == {j \in i .. Len(toks) : toks[j].t = "punct"} IN
    IF ps = {} THEN 0 ELSE CHOOSE j \in ps : \A k \in ps : j <= k

RECURSIVE parse_value(_, _)
RECURSIVE parse_items(_, _, _)

\* the items of an object from position i, after those of acc
parse_items(toks, i, acc) ==
    LET name == parse_value(toks, i) IN
    IF ~name.ok \/ name.val.t # "str" \/ Len(name.val.v) # 1 THEN ParseError
    ELSE IF name.val.v[1].t # "chr" THEN ParseError
    ELSE IF name.next > Len(toks) \/ ~IsPunct(toks[name.next], ":") THEN ParseError
    ELSE LET value == parse_value(toks, name.next + 1) IN
         IF ~value.ok \/ value.next > Len(toks) THEN ParseError
         ELSE LET items == Append(acc, <<name.val.v[1].v, value.val>>) IN
              IF IsPunct(toks[value.next], "}")
                  THEN Parsed(Dict(items), value.next + 1)
              ELSE IF IsPunct(toks[value.next], ",")
                  THEN parse_items(toks, value.next + 1, items)
              ELSE ParseError

\* the JSON value that starts at position i
parse_value(toks, i) ==
    IF i > Len(toks) THEN ParseError
    ELSE IF toks[i].t = "lit"
        THEN IF toks[i].v = "null" THEN Parsed(None, i + 1) ELSE ParseError
    ELSE IF toks[i].t = "num" THEN Parsed(PyInt(toks[i].v), i + 1)
    ELSE IF IsPunct(toks[i], "\"")
        THEN LET j == NextPunct(toks, i + 1) IN
             IF j = 0 \/ ~IsPunct(toks[j], "\"") THEN ParseError
             ELSE Parsed(Str(SubSeq(toks, i + 1, j - 1)), j + 1)
    ELSE IF IsPunct(toks[i], "{")
        THEN IF i + 1 <= Len(toks) /\ IsPunct(toks[i + 1], "}")
                 THEN Parsed(Dict(<<>>), i + 2)
             ELSE parse_items(toks, i + 1, <<>>)
    ELSE ParseError

\* json.loads raises JSONDecodeError on a text that is no JSON value, and on
\* one with anything after the value
json_loads_raises(toks) ==
    LET r == parse_value(toks, 1) IN ~r.ok \/ r.next # Len(toks) + 1
json_loads(toks) == parse_value(toks, 1).val

-----------------------------------------------------------------------------
(* bytes of the vault, os.urandom, base64, scrypt, AES-GCM *)

\* salt = os.urandom(16)
SaltLen == 16
\* nonce = os.urandom(12)
NonceLen == 12
\* _kdf_scrypt's defaults, and the params Key.encrypt writes
ScryptN == 16384
ScryptR == 8
ScryptP == 1
ScryptLength == 32
\* the AES-GCM tag that cryptography's AESGCM appends to the ciphertext
TagLen == 16
\* bytes per base64 group
B64GroupBytes == 3
\* "version": 1
BlobVersion == 1

\* A byte of the vault is a cell [t, v, x]: what the byte is, and x, the bits
\* of it that were flipped since (0: none).
\*   "rand"  byte v[2] of the v[1]-th string os.urandom returned
\*   "utf8"  an encoded character of a text
\*   "ct0"   the first byte of a sealed box, standing for the box v
\*   "ct"    byte v of a sealed box
Cell(t, v) == [t |-> t, v |-> v, x |-> 0]

\* os.urandom(n), the draw-th call: an ideal source never repeats a string
urandom(n, draw) == [i \in 1 .. n |-> Cell("rand", <<draw, i>>)]

\* str.encode() and bytes.decode(): bytes.decode raises UnicodeDecodeError on
\* bytes that are not encoded characters
str_encode(chars) == [i \in 1 .. Len(chars) |-> Cell("utf8", chars[i])]
bytes_decode_raises(bytes) ==
    \E i \in 1 .. Len(bytes) : bytes[i].t # "utf8" \/ bytes[i].x # 0
bytes_decode(bytes) == [i \in 1 .. Len(bytes) |-> bytes[i].v]

\* base64.b64encode(bytes).decode(): one group of four symbols per three
\* bytes, the last one padded with "="
b64encode(bytes) ==
    LET n == (Len(bytes) + B64GroupBytes - 1) \div B64GroupBytes IN
    [k \in 1 .. n |->
        [t |-> "b64",
         v |-> SubSeq(bytes, B64GroupBytes * (k - 1) + 1,
                      IF B64GroupBytes * k < Len(bytes)
                          THEN B64GroupBytes * k ELSE Len(bytes)),
         pad |-> TRUE]]

\* base64.b64decode(chars): characters outside the alphabet are discarded;
\* binascii.Error when a short group lacks its padding
b64_symbols(chars) == SelectSeq(chars, LAMBDA c : c.t = "b64")
b64decode_raises(chars) ==
    \E i \in 1 .. Len(chars) :
        chars[i].t = "b64" /\ Len(chars[i].v) < B64GroupBytes /\ ~chars[i].pad
b64decode(chars) ==
    LET groups == b64_symbols(chars) IN
    Concat([k \in 1 .. Len(groups) |-> groups[k].v])

\* Scrypt(salt, length, n, r, p) raises ValueError unless n is a power of two
\* above 1 and r, p are positive
IsPowerOfTwo(n) == \E e \in 1 .. 30 : n = Pow(2, e)
scrypt_params_invalid(n, r, p) == ~IsPowerOfTwo(n) \/ r < 1 \/ p < 1
\* Scrypt(...).derive(password.encode("utf-8")), as an ideal function: the
\* key is a term over everything it is derived from
_kdf_scrypt(password, salt, n, r, p, length) ==
    [password |-> str_encode(password.v), salt |-> salt,
     n |-> n, r |-> r, p |-> p, length |-> length]

\* AESGCM(key).encrypt(nonce, plaintext, aad): the sealed box, ciphertext and
\* tag, Len(plaintext) + 16 bytes
aes_encrypt(key, nonce, plaintext, aad) ==
    [i \in 1 .. Len(plaintext) + TagLen |->
        IF i = 1
            THEN Cell("ct0", [key |-> key, nonce |-> nonce,
                              aad |-> aad, pt |-> plaintext])
        ELSE Cell("ct", i)]

\* the tag of ct verifies under key, nonce and aad: ct is, byte for byte, a
\* box sealed under them
aes_tag_ok(key, nonce, ct, aad) ==
    /\ Len(ct) >= TagLen
    /\ ct[1].t = "ct0"
    /\ ct[1].x = 0
    /\ ct[1].v.key = key
    /\ ct[1].v.nonce = nonce
    /\ ct[1].v.aad = aad
    /\ Len(ct) = Len(ct[1].v.pt) + TagLen
    /\ \A i \in 2 .. Len(ct) : ct[i] = Cell("ct", i)

\* what decrypting without the tag check gives on a box that does not verify
GarbageBytes(ct) == [i \in 1 .. Len(ct) |-> Cell("garbage", i)]

\* AESGCM.decrypt raises ValueError on a nonce shorter than 8 bytes or longer
\* than 128
aes_nonce_invalid(nonce) == Len(nonce) < 8 \/ Len(nonce) > 128

\* a mutation of aes_decrypt_raises: the tag is not verified
aes_decrypt_raises_unverified(key, nonce, ct, aad) == FALSE

\* AESGCM(key).decrypt(nonce, ct, aad) raises InvalidTag unless the tag verifies
aes_decrypt_raises(key, nonce, ct, aad) == ~aes_tag_ok(key, nonce, ct, aad)
aes_decrypt(key, nonce, ct, aad) ==
    IF aes_tag_ok(key, nonce, ct, aad) THEN ct[1].v.pt ELSE GarbageBytes(ct)

-----------------------------------------------------------------------------
(* The Key object of key_tools.py *)

\* Key(scheme, network, secret_phrase, public_key_hex, ss58_address)
Key(scheme, network, secret_phrase, public_key_hex, ss58_address) ==
    [scheme |-> scheme, network |-> network, secret_phrase |-> secret_phrase,
     public_key_hex |-> public_key_hex, ss58_address |-> ss58_address]

NoKey == Key(None, None, None, None, None)

\* What `subkey inspect` prints, as parse_subkey_generate reads it: the public
\* key of a phrase under a scheme, and the address of a public key on a
\* network. subkey is a deterministic oracle.
subkey_public(phrase, scheme) ==
    Str(<<Chr("0x"), Chr("pub")>> \o phrase.v \o scheme.v)
subkey_ss58(public_hex, network) ==
    Str(<<Chr("5")>> \o public_hex.v \o network.v)

\* Key.from_secret_phrase(phrase, scheme, network)
from_secret_phrase(phrase, scheme, network) ==
    Key(scheme, network, phrase, subkey_public(phrase, scheme),
        subkey_ss58(subkey_public(phrase, scheme), network))

\* Key.from_public(public_hex, scheme, network)
from_public(public_hex, scheme, network) ==
    Key(scheme, network, None, public_hex, subkey_ss58(public_hex, network))

\* bool(x) of a Python value
truthy(x) ==
    IF x.t = "none" THEN FALSE
    ELSE IF x.t = "int" THEN x.v # 0
    ELSE Len(x.v) > 0

\* the first values of a Key's public fields, before any is set
NoFirst == [public_key_hex |-> None, ss58_address |-> None]

\* Key.derive_public_ss58 raises ValueError on a key that has neither both
\* public fields nor a secret phrase
derive_public_ss58_raises(self) ==
    /\ ~(truthy(self.public_key_hex) /\ truthy(self.ss58_address))
    /\ ~truthy(self.secret_phrase)
\* Key.derive_public_ss58(): the object after the call
derive_public_ss58(self) ==
    IF truthy(self.public_key_hex) /\ truthy(self.ss58_address) THEN self
    ELSE LET derived ==
                 from_secret_phrase(self.secret_phrase, self.scheme, self.network)
         IN  [self EXCEPT !.public_key_hex = derived.public_key_hex,
                          !.ss58_address = derived.ss58_address]

\* a mutation of to_json: the secret phrase is always part of the dict
to_json_always_secret(self, include_secret) ==
    Dict(<< <<"scheme", self.scheme>>,
            <<"network", self.network>>,
            <<"public_key_hex", self.public_key_hex>>,
            <<"ss58_address", self.ss58_address>>,
            <<"secret_phrase", self.secret_phrase>> >>)

\* Key.to_json(include_secret)
to_json(self, include_secret) ==
    LET data == Dict(<< <<"scheme", self.scheme>>,
                        <<"network", self.network>>,
                        <<"public_key_hex", self.public_key_hex>>,
                        <<"ss58_address", self.ss58_address>> >>)
    IN  IF include_secret
            THEN dict_set(data, "secret_phrase", self.secret_phrase)
        ELSE data

\* a mutation of _aesgcm_encrypt: the nonce is a constant, not a fresh draw
_aesgcm_encrypt_fixed_nonce(key, plaintext, aad, draw) ==
    LET nonce == urandom(NonceLen, 0) IN
    << <<"nonce", Str(b64encode(nonce))>>,
       <<"ciphertext", Str(b64encode(aes_encrypt(key, nonce, plaintext, aad)))>> >>

\* _aesgcm_encrypt(key, plaintext, aad), whose os.urandom call is the draw-th:
\* the items "nonce" and "ciphertext"
_aesgcm_encrypt(key, plaintext, aad, draw) ==
    LET nonce == urandom(NonceLen, draw) IN
    << <<"nonce", Str(b64encode(nonce))>>,
       <<"ciphertext", Str(b64encode(aes_encrypt(key, nonce, plaintext, aad)))>> >>

\* a mutation of encrypt_payload: the dict is built without the secret
encrypt_payload_without_secret(self) ==
    str_encode(json_dumps(to_json(self, FALSE)))

\* the payload Key.encrypt seals
encrypt_payload(self) == str_encode(json_dumps(to_json(self, TRUE)))

\* Key.encrypt(password), after draws calls of os.urandom: the blob
encrypt(self, password, draws) ==
    LET payload == encrypt_payload(self)
        salt == urandom(SaltLen, draws + 1)
        key == _kdf_scrypt(password, salt, ScryptN, ScryptR, ScryptP, ScryptLength)
        enc == _aesgcm_encrypt(key, payload, <<>>, draws + 2)
    IN  Dict(<< <<"version", PyInt(BlobVersion)>>,
                <<"kdf", Text("scrypt")>>,
                <<"salt", Str(b64encode(salt))>>,
                <<"params", Dict(<< <<"n", PyInt(ScryptN)>>,
                                    <<"r", PyInt(ScryptR)>>,
                                    <<"p", PyInt(ScryptP)>> >>)>> >>
             \o enc)
\* os.urandom calls per Key.encrypt
DrawsPerEncrypt == 2

Raised(exc) == [exc |-> exc, key |-> NoKey]
Returned(key) == [exc |-> "none", key |-> key]

\* the tail of Key.decrypt, from json.loads on
decrypt_parse(pt) ==
    IF bytes_decode_raises(pt) THEN Raised("UnicodeDecodeError")
    ELSE IF json_loads_raises(bytes_decode(pt)) THEN Raised("JSONDecodeError")
    ELSE LET data == json_loads(bytes_decode(pt)) IN
         IF data.t # "dict" THEN Raised("TypeError")
         ELSE IF ~dict_has(data, "scheme") THEN Raised("KeyError")
         ELSE Returned(Key(dict_get(data, "scheme", None),
                           dict_get(data, "network", Text("substrate")),
                           dict_get(data, "secret_phrase", None),
                           dict_get(data, "public_key_hex", None),
                           dict_get(data, "ss58_address", None)))

\* _aesgcm_decrypt(key, nonce_b64, ciphertext_b64) and what follows it
decrypt_open(key, nonce_b64, ciphertext_b64) ==
    IF nonce_b64.t # "str" THEN Raised("TypeError")
    ELSE IF b64decode_raises(nonce_b64.v) THEN Raised("binascii.Error")
    ELSE IF ciphertext_b64.t # "str" THEN Raised("TypeError")
    ELSE IF b64decode_raises(ciphertext_b64.v) THEN Raised("binascii.Error")
    ELSE LET nonce == b64decode(nonce_b64.v)
             ct == b64decode(ciphertext_b64.v)
         IN  IF aes_nonce_invalid(nonce) THEN Raised("ValueError")
             ELSE IF aes_decrypt_raises(key, nonce, ct, <<>>) THEN Raised("InvalidTag")
             ELSE decrypt_parse(aes_decrypt(key, nonce, ct, <<>>))

\* Key.decrypt(blob, password): the Key, or the exception raised
decrypt(blob, password) ==
    IF blob.t # "dict" THEN Raised("AttributeError")
    ELSE IF dict_get(blob, "kdf", None) # Text("scrypt")
        THEN Raised("ValueError: Unsupported KDF")
    ELSE LET got == dict_get(blob, "params", None)
             params == IF truthy(got) THEN got ELSE Dict(<<>>)
         IN
         IF params.t # "dict" THEN Raised("AttributeError")
         ELSE LET n == dict_get(params, "n", PyInt(ScryptN))
                  r == dict_get(params, "r", PyInt(ScryptR))
                  p == dict_get(params, "p", PyInt(ScryptP))
                  salt_b64 == dict_get(blob, "salt", None)
              IN
              IF salt_b64.t = "str" /\ b64decode_raises(salt_b64.v)
                  THEN Raised("binascii.Error")
              ELSE IF salt_b64.t # "str" THEN Raised("TypeError")
              ELSE IF n.t # "int" \/ r.t # "int" \/ p.t # "int" THEN Raised("TypeError")
              ELSE IF scrypt_params_invalid(n.v, r.v, p.v) THEN Raised("ValueError")
              ELSE IF ~dict_has(blob, "nonce") \/ ~dict_has(blob, "ciphertext")
                  THEN Raised("KeyError")
              ELSE decrypt_open(
                       _kdf_scrypt(password, b64decode(salt_b64.v),
                                   n.v, r.v, p.v, ScryptLength),
                       dict_get(blob, "nonce", None),
                       dict_get(blob, "ciphertext", None))

-----------------------------------------------------------------------------
(* The inputs of the vault commands *)

Passwords == {Text("pw1"), Text("pw2")}

\* --phrase / --public, --scheme, --network of derive and key-save
Args(phrase, public, scheme, network) ==
    [phrase |-> phrase, public |-> public, scheme |-> scheme, network |-> network]

KeyArgs ==
    { Args(Str(<<Chr("alpha"), Chr("bravo"), Chr("charlie")>>), None,
           Text("sr25519"), Text("substrate")),
      Args(None, Text("0xabc"), Text("ed25519"), Text("kusama")),
      Args(None, None, Text("sr25519"), Text("substrate")) }

\* the secret phrases of these arguments
SecretPhrases == {a.phrase : a \in {b \in KeyArgs : b.phrase.t = "str"}}

\* cmd_derive and cmd_key_save raise ValueError without --phrase and --public
args_invalid(args) == args.phrase.t # "str" /\ args.public.t # "str"
\* the Key they construct
args_key(args) ==
    IF args.phrase.t = "str"
        THEN from_secret_phrase(args.phrase, args.scheme, args.network)
    ELSE from_public(args.public, args.scheme, args.network)

-----------------------------------------------------------------------------
(* What can happen to a key file between a save and a load *)

\* the string item name of blob, its characters changed by Op
edit_str(blob, name, Op(_)) ==
    dict_set(blob, name, Str(Op(dict_get(blob, name, None).v)))
\* the bytes of the base64 item name of blob changed by Op
edit_bytes(blob, name, Op(_)) ==
    dict_set(blob, name, Str(b64encode(Op(b64decode(dict_get(blob, name, None).v)))))

\* a character outside the base64 alphabet put after the first group
with_junk(chars) == <<chars[1], Chr("!")>> \o Tail(chars)
\* the padding of the last group removed
without_padding(chars) == [chars EXCEPT ![Len(chars)].pad = FALSE]
\* the last group removed
without_last(chars) == SubSeq(chars, 1, Len(chars) - 1)
\* the last two groups removed
without_last_two(chars) == SubSeq(chars, 1, Len(chars) - 2)
\* one bit of byte i flipped
flip_bit(bytes, i, bit) == [bytes EXCEPT ![i].x = Pow(2, bit)]
flip_first(bytes) == flip_bit(bytes, 1, 7)
flip_middle(bytes) == flip_bit(bytes, Len(bytes) \div 2, 0)
flip_last(bytes) == flip_bit(bytes, Len(bytes), 0)

\* a bit of the decoded ciphertext flipped
FlipKinds == {"flip first", "flip middle", "flip last"}
\* the version item changed or removed
VersionKinds == {"version 2", "version absent"}
\* the kdf item changed or removed
KdfKinds == {"kdf argon2", "kdf absent"}
\* one of salt, params, nonce, ciphertext removed
MissingKinds ==
    {"salt absent", "params absent", "nonce absent", "ciphertext absent"}
\* one of them malformed
MalformedKinds ==
    {"salt null", "salt junk", "salt unpadded", "params n 3", "params r null",
     "nonce short", "ciphertext junk"}
\* one of them well-formed, and not the one written
ChangedKinds == {"salt truncated", "params n 1024", "ciphertext truncated"}

TamperKinds ==
    FlipKinds \cup VersionKinds \cup KdfKinds \cup MissingKinds
        \cup MalformedKinds \cup ChangedKinds

tampered(blob, kind) ==
    CASE kind = "flip first" -> edit_bytes(blob, "ciphertext", flip_first)
      [] kind = "flip middle" -> edit_bytes(blob, "ciphertext", flip_middle)
      [] kind = "flip last" -> edit_bytes(blob, "ciphertext", flip_last)
      [] kind = "version 2" -> dict_set(blob, "version", PyInt(BlobVersion + 1))
      [] kind = "version absent" -> dict_del(blob, "version")
      [] kind = "kdf argon2" -> dict_set(blob, "kdf", Text("argon2"))
      [] kind = "kdf absent" -> dict_del(blob, "kdf")
      [] kind = "salt absent" -> dict_del(blob, "salt")
      [] kind = "params absent" -> dict_del(blob, "params")
      [] kind = "nonce absent" -> dict_del(blob, "nonce")
      [] kind = "ciphertext absent" -> dict_del(blob, "ciphertext")
      [] kind = "salt null" -> dict_set(blob, "salt", None)
      [] kind = "salt junk" -> edit_str(blob, "salt", with_junk)
      [] kind = "salt unpadded" -> edit_str(blob, "salt", without_padding)
      [] kind = "salt truncated" -> edit_str(blob, "salt", without_last)
      [] kind = "params n 3" ->
            dict_set(blob, "params",
                     dict_set(dict_get(blob, "params", None), "n", PyInt(3)))
      [] kind = "params n 1024" ->
            dict_set(blob, "params",
                     dict_set(dict_get(blob, "params", None), "n", PyInt(1024)))
      [] kind = "params r null" ->
            dict_set(blob, "params",
                     dict_set(dict_get(blob, "params", None), "r", None))
      [] kind = "nonce short" -> edit_str(blob, "nonce", without_last_two)
      [] kind = "ciphertext junk" -> edit_str(blob, "ciphertext", with_junk)
      [] kind = "ciphertext truncated" -> edit_str(blob, "ciphertext", without_last)

-----------------------------------------------------------------------------
(* The vault commands: derive, key-save, key-load *)

File(text) == [exists |-> TRUE, text |-> text]
NoFile == [exists |-> FALSE, text |-> <<>>]
NoSaved == [key |-> NoKey, password |-> None]
Out(op, exc, key, password, with_secret) ==
    [op |-> op, exc |-> exc, key |-> key, password |-> password,
     with_secret |-> with_secret]
NoOut == Out("none", "none", NoKey, None, FALSE)

\* the salt, key, nonce and payload of a Key.encrypt call, read off the blob
\* it returned
encrypt_use(blob) ==
    LET ct == b64decode(dict_get(blob, "ciphertext", None).v) IN
    [salt |-> b64decode(dict_get(blob, "salt", None).v),
     nonce |-> ct[1].v.nonce,
     key |-> ct[1].v.key,
     payload |-> ct[1].v.pt]

\* key_tools.py derive [--phrase P | --public X] --scheme S [--with-secret]
cmd_derive ==
    \E args \in KeyArgs, with_secret \in BOOLEAN :
        /\ IF args_invalid(args)
               THEN /\ v_out' = Out("cmd_derive", "ValueError", NoKey, None, with_secret)
                    /\ v_stdout' = None
           ELSE IF derive_public_ss58_raises(args_key(args))
               THEN /\ v_out' = Out("cmd_derive", "ValueError", NoKey, None, with_secret)
                    /\ v_stdout' = None
           ELSE LET k == derive_public_ss58(args_key(args)) IN
                /\ v_out' = Out("cmd_derive", "none", k, None, with_secret)
                /\ v_stdout' = to_json(k, with_secret)
        /\ UNCHANGED <<v_file, v_saved, v_tamper, v_draws, v_enc_log>>
        /\ UNCHANGED <<ms_vars, f_vars, k_vars>>

\* key_tools.py key-save ... --out PATH: Key.save(path, password). Without
\* --password the password is asked for twice (pw1, pw2); with it, pw1 = pw2.
cmd_key_save ==
    \E args \in KeyArgs, pw1 \in Passwords, pw2 \in Passwords :
        /\ Len(v_enc_log) < MaxEncrypts
        /\ UNCHANGED <<ms_vars, f_vars, k_vars>>
        /\ v_stdout' = None
        /\ IF args_invalid(args) \/ pw1 # pw2
               THEN /\ v_out' = Out("cmd_key_save", "ValueError", NoKey, pw1, FALSE)
                    /\ UNCHANGED <<v_file, v_saved, v_tamper, v_draws, v_enc_log>>
           ELSE LET blob == encrypt(args_key(args), pw1, v_draws) IN
                /\ v_out' = Out("cmd_key_save", "none", args_key(args), pw1, FALSE)
                /\ v_file' = File(json_dumps(blob))
                /\ v_saved' = [key |-> args_key(args), password |-> pw1]
                /\ v_tamper' = "none"
                /\ v_draws' = v_draws + DrawsPerEncrypt
                /\ v_enc_log' = Append(v_enc_log, encrypt_use(blob))

\* Key.load(path, password): the Key, or the exception raised
load(file, password) ==
    IF ~file.exists THEN Raised("FileNotFoundError")
    ELSE IF json_loads_raises(file.text) THEN Raised("JSONDecodeError")
    ELSE decrypt(json_loads(file.text), password)

\* key_tools.py key-load --file PATH --password PW [--with-secret]
cmd_key_load ==
    \E password \in Passwords, with_secret \in BOOLEAN :
        LET r == load(v_file, password) IN
        /\ v_out' = Out("cmd_key_load", r.exc, r.key, password, with_secret)
        /\ v_stdout' = IF r.exc = "none" THEN to_json(r.key, with_secret) ELSE None
        /\ UNCHANGED <<v_file, v_saved, v_tamper, v_draws, v_enc_log>>
        /\ UNCHANGED <<ms_vars, f_vars, k_vars>>

\* The file is edited, or damaged, after the save that wrote it.
tamper ==
    \E kind \in TamperKinds :
        /\ v_file.exists
        /\ v_tamper = "none"
        /\ v_file' = File(json_dumps(tampered(json_loads(v_file.text), kind)))
        /\ v_tamper' = kind
        /\ v_out' = NoOut
        /\ v_stdout' = None
        /\ UNCHANGED <<v_saved, v_draws, v_enc_log>>
        /\ UNCHANGED <<ms_vars, f_vars, k_vars>>

-----------------------------------------------------------------------------
(* Key.save and Key.load as the steps of concurrent processes on one path *)

Savers == {1, 2}

\* the Keys and passwords the savers are given
Jobs ==
    {[key |-> args_key(a), password |-> Text("pw1")] :
        a \in {b \in KeyArgs : ~args_invalid(b)}}

NoLoad == [seen |-> NoFile, exc |-> "not called", key |-> NoKey]

\* text written at offset 0 of a file that holds old: the bytes of old past
\* the end of text stay
written_over(old, text) == text \o SubSeq(old, Len(text) + 1, Len(old))

\* a mutation of save_passwords_differ: the file is opened for writing before
\* the passwords are asked for
save_passwords_differ_after_open(p) ==
    /\ f_pc[p] = "start"
    /\ \E pw1 \in Passwords, pw2 \in Passwords : pw1 # pw2
    /\ v_file' = File(<<>>)
    /\ f_pc' = [f_pc EXCEPT ![p] = "raised ValueError"]
    /\ UNCHANGED <<v_draws, f_prior, f_job, f_text, f_buf, f_load>>
    /\ UNCHANGED <<ms_vars, v_vars, k_vars>>

\* Key.save with password None: the two passwords typed differ, ValueError
save_passwords_differ(p) ==
    /\ f_pc[p] = "start"
    /\ \E pw1 \in Passwords, pw2 \in Passwords : pw1 # pw2
    /\ f_pc' = [f_pc EXCEPT ![p] = "raised ValueError"]
    /\ UNCHANGED <<v_file, v_draws, f_prior, f_job, f_text, f_buf, f_load>>
    /\ UNCHANGED <<ms_vars, v_vars, k_vars>>

\* Key.save: self.encrypt(password) raises, as _require_crypto does with
\* RuntimeError when the cryptography package is missing
save_encrypt_raises(p) ==
    /\ f_pc[p] = "start"
    /\ f_pc' = [f_pc EXCEPT ![p] = "raised RuntimeError"]
    /\ UNCHANGED <<v_file, v_draws, f_prior, f_job, f_text, f_buf, f_load>>
    /\ UNCHANGED <<ms_vars, v_vars, k_vars>>

\* Key.save: blob = self.encrypt(password)
save_encrypt(p) ==
    /\ f_pc[p] = "start"
    /\ f_text' = [f_text EXCEPT
                    ![p] = json_dumps(encrypt(f_job[p].key, f_job[p].password, v_draws))]
    /\ v_draws' = v_draws + DrawsPerEncrypt
    /\ f_pc' = [f_pc EXCEPT ![p] = "encrypted"]
    /\ UNCHANGED <<v_file, f_prior, f_job, f_buf, f_load>>
    /\ UNCHANGED <<ms_vars, v_vars, k_vars>>

\* Key.save: open(path, "w") creates the file or truncates it
save_open(p) ==
    /\ f_pc[p] = "encrypted"
    /\ v_file' = File(<<>>)
    /\ f_pc' = [f_pc EXCEPT ![p] = "opened"]
    /\ UNCHANGED <<v_draws, f_prior, f_job, f_text, f_buf, f_load>>
    /\ UNCHANGED <<ms_vars, v_vars, k_vars>>

\* Key.save: json.dump(blob, f, indent=2) writes the text into f's buffer
save_dump(p) ==
    /\ f_pc[p] = "opened"
    /\ f_buf' = [f_buf EXCEPT ![p] = f_text[p]]
    /\ f_pc' = [f_pc EXCEPT ![p] = "dumped"]
    /\ UNCHANGED <<v_file, v_draws, f_prior, f_job, f_text, f_load>>
    /\ UNCHANGED <<ms_vars, v_vars, k_vars>>

\* Key.save: leaving the with block closes f, which writes the buffer at f's
\* offset, 0
save_close(p) ==
    /\ f_pc[p] = "dumped"
    /\ v_file' = File(written_over(v_file.text, f_buf[p]))
    /\ f_buf' = [f_buf EXCEPT ![p] = <<>>]
    /\ f_pc' = [f_pc EXCEPT ![p] = "closed"]
    /\ UNCHANGED <<v_draws, f_prior, f_job, f_text, f_load>>
    /\ UNCHANGED <<ms_vars, v_vars, k_vars>>

\* The process is killed in Key.save: what is in its buffer is lost.
save_crash(p) ==
    /\ f_pc[p] \in {"encrypted", "opened", "dumped"}
    /\ f_buf' = [f_buf EXCEPT ![p] = <<>>]
    /\ f_pc' = [f_pc EXCEPT ![p] = "crashed"]
    /\ UNCHANGED <<v_file, v_draws, f_prior, f_job, f_text, f_load>>
    /\ UNCHANGED <<ms_vars, v_vars, k_vars>>

\* Key.load(path, password) by another process
file_load ==
    \E password \in Passwords :
        LET r == load(v_file, password) IN
        /\ f_load' = [seen |-> v_file, exc |-> r.exc, key |-> r.key]
        /\ UNCHANGED <<v_file, v_draws, f_prior, f_job, f_pc, f_text, f_buf>>
        /\ UNCHANGED <<ms_vars, v_vars, k_vars>>

-----------------------------------------------------------------------------
(* One Key object: its construction, and the methods called on it *)

\* the fields a Key is constructed with
KeySchemes == {Text("sr25519"), Text("ed25519")}
KeyPhrases == {None} \cup SecretPhrases
KeyPublics(phrase, scheme) ==
    {None, Text("0xabc")}
        \cup (IF phrase = None THEN {} ELSE {subkey_public(phrase, scheme)})
KeyAddresses(phrase, scheme, network) ==
    {None} \cup {subkey_ss58(x, network) : x \in KeyPublics(phrase, scheme) \ {None}}

\* the first value each public field was set to, after the object became key
first_set(first, key) ==
    [public_key_hex |-> IF first.public_key_hex = None THEN key.public_key_hex
                        ELSE first.public_key_hex,
     ss58_address |-> IF first.ss58_address = None THEN key.ss58_address
                      ELSE first.ss58_address]

\* Key(scheme=..., network=..., secret_phrase=..., public_key_hex=...,
\* ss58_address=...): the dataclass's constructor, as Key.decrypt calls it on
\* the fields of a payload and as any caller may
key_init ==
    \E scheme \in KeySchemes, phrase \in KeyPhrases :
      \E public \in KeyPublics(phrase, scheme) :
        \E address \in KeyAddresses(phrase, scheme, Text("substrate")) :
            /\ k_op = "none"
            /\ k_key' = Key(scheme, Text("substrate"), phrase, public, address)
            /\ k_first' = first_set(NoFirst, k_key')
            /\ k_op' = "Key"
            /\ k_exc' = "none"
            /\ UNCHANGED <<ms_vars, v_vars, fs_vars, f_vars>>

\* Key.from_secret_phrase(phrase, scheme, network)
key_from_secret_phrase ==
    \E scheme \in KeySchemes, phrase \in SecretPhrases :
        /\ k_op = "none"
        /\ k_key' = from_secret_phrase(phrase, scheme, Text("substrate"))
        /\ k_first' = first_set(NoFirst, k_key')
        /\ k_op' = "from_secret_phrase"
        /\ k_exc' = "none"
        /\ UNCHANGED <<ms_vars, v_vars, fs_vars, f_vars>>

\* Key.from_public(public_hex, scheme, network)
key_from_public ==
    \E scheme \in KeySchemes :
        /\ k_op = "none"
        /\ k_key' = from_public(Text("0xabc"), scheme, Text("substrate"))
        /\ k_first' = first_set(NoFirst, k_key')
        /\ k_op' = "from_public"
        /\ k_exc' = "none"
        /\ UNCHANGED <<ms_vars, v_vars, fs_vars, f_vars>>

\* self.derive_public_ss58(): assigns both public fields of self from the
\* secret phrase unless both are set already
key_derive_public_ss58 ==
    /\ k_op # "none"
    /\ k_op' = "derive_public_ss58"
    /\ IF derive_public_ss58_raises(k_key)
           THEN k_exc' = "ValueError" /\ UNCHANGED <<k_key, k_first>>
       ELSE /\ k_exc' = "none"
            /\ k_key' = derive_public_ss58(k_key)
            /\ k_first' = first_set(k_first, k_key')
    /\ UNCHANGED <<ms_vars, v_vars, fs_vars, f_vars>>

\* self.to_json(include_secret): reads the fields
key_to_json ==
    \E include_secret \in BOOLEAN :
        /\ k_op # "none"
        /\ k_op' = "to_json"
        /\ k_exc' = "none"
        /\ v_stdout' = to_json(k_key, include_secret)
        /\ UNCHANGED <<k_key, k_first>>
        /\ UNCHANGED <<v_saved, v_tamper, v_out, v_enc_log>>
        /\ UNCHANGED <<ms_vars, fs_vars, f_vars>>

\* self.encrypt(password): reads the fields, draws a salt and a nonce
key_encrypt ==
    \E password \in Passwords :
        /\ k_op # "none"
        /\ Len(v_enc_log) < MaxEncrypts
        /\ k_op' = "encrypt"
        /\ k_exc' = "none"
        /\ v_enc_log' = Append(v_enc_log, encrypt_use(encrypt(k_key, password, v_draws)))
        /\ v_draws' = v_draws + DrawsPerEncrypt
        /\ UNCHANGED <<k_key, k_first>>
        /\ UNCHANGED <<v_file, v_saved, v_tamper, v_out, v_stdout>>
        /\ UNCHANGED <<ms_vars, f_vars>>

\* self.save(path, password): encrypts and writes the file
key_save ==
    \E password \in Passwords :
        /\ k_op # "none"
        /\ Len(v_enc_log) < MaxEncrypts
        /\ k_op' = "save"
        /\ k_exc' = "none"
        /\ LET blob == encrypt(k_key, password, v_draws) IN
           /\ v_file' = File(json_dumps(blob))
           /\ v_enc_log' = Append(v_enc_log, encrypt_use(blob))
        /\ v_saved' = [key |-> k_key, password |-> password]
        /\ v_draws' = v_draws + DrawsPerEncrypt
        /\ UNCHANGED <<k_key, k_first>>
        /\ UNCHANGED <<v_tamper, v_out, v_stdout>>
        /\ UNCHANGED <<ms_vars, f_vars>>

-----------------------------------------------------------------------------
(* The specifications *)

\* runs of the multisig commands: the arguments of one run are drawn, then
\* the commands run on them
InitMultisig ==
    /\ ms_signers \in SignerLists \ {<<>>}
    /\ ms_threshold \in Thresholds
    /\ ms_prefix \in Prefixes
    /\ ms_key_tools = NotCalled
    /\ ms_init_network = InitNotCalled
    /\ ms_prev = NoPrev
    /\ ms_op = "none"
    /\ v_file = NoFile
    /\ v_saved = NoSaved
    /\ v_tamper = "none"
    /\ v_out = NoOut
    /\ v_stdout = None
    /\ v_draws = 0
    /\ v_enc_log = <<>>
    /\ f_prior = NoFile
    /\ f_job = [p \in Savers |-> NoSaved]
    /\ f_pc = [p \in Savers |-> "idle"]
    /\ f_text = [p \in Savers |-> <<>>]
    /\ f_buf = [p \in Savers |-> <<>>]
    /\ f_load = NoLoad
    /\ k_key = NoKey
    /\ k_first = NoFirst
    /\ k_op = "none"
    /\ k_exc = "none"

NextMultisig ==
    \/ cmd_multisig
    \/ cmd_multisig_reordered
    \/ init_network_main

SpecMultisig == InitMultisig /\ [][NextMultisig]_vars

\* runs of derive, key-save and key-load on one key file
InitVault ==
    /\ ms_signers = <<>>
    /\ ms_threshold = 0
    /\ ms_prefix = DefaultSs58Prefix
    /\ ms_key_tools = NotCalled
    /\ ms_init_network = InitNotCalled
    /\ ms_prev = NoPrev
    /\ ms_op = "none"
    /\ v_file = NoFile
    /\ v_saved = NoSaved
    /\ v_tamper = "none"
    /\ v_out = NoOut
    /\ v_stdout = None
    /\ v_draws = 0
    /\ v_enc_log = <<>>
    /\ f_prior = NoFile
    /\ f_job = [p \in Savers |-> NoSaved]
    /\ f_pc = [p \in Savers |-> "idle"]
    /\ f_text = [p \in Savers |-> <<>>]
    /\ f_buf = [p \in Savers |-> <<>>]
    /\ f_load = NoLoad
    /\ k_key = NoKey
    /\ k_first = NoFirst
    /\ k_op = "none"
    /\ k_exc = "none"

NextVault ==
    \/ cmd_derive
    \/ cmd_key_save
    \/ cmd_key_load
    \/ tamper

SpecVault == InitVault /\ [][NextVault]_vars

\* two Key.save calls and Key.load calls on one path, step by step. Before
\* the saves the path is absent, or holds the blob of an earlier, complete
\* save.
InitFile ==
    /\ ms_signers = <<>>
    /\ ms_threshold = 0
    /\ ms_prefix = DefaultSs58Prefix
    /\ ms_key_tools = NotCalled
    /\ ms_init_network = InitNotCalled
    /\ ms_prev = NoPrev
    /\ ms_op = "none"
    /\ v_saved = NoSaved
    /\ v_tamper = "none"
    /\ v_out = NoOut
    /\ v_stdout = None
    /\ v_enc_log = <<>>
    /\ \/ v_file = NoFile /\ v_draws = 0
       \/ /\ v_file = File(json_dumps(encrypt(
                 from_secret_phrase(Text("echo"), Text("sr25519"), Text("substrate")),
                 Text("pw1"), 0)))
          /\ v_draws = DrawsPerEncrypt
    /\ f_prior = v_file
    /\ f_job \in [Savers -> Jobs]
    /\ f_pc = [p \in Savers |-> "start"]
    /\ f_text = [p \in Savers |-> <<>>]
    /\ f_buf = [p \in Savers |-> <<>>]
    /\ f_load = NoLoad
    /\ k_key = NoKey
    /\ k_first = NoFirst
    /\ k_op = "none"
    /\ k_exc = "none"

NextFile ==
    \/ \E p \in Savers : save_passwords_differ(p)
    \/ \E p \in Savers : save_encrypt_raises(p)
    \/ \E p \in Savers : save_encrypt(p)
    \/ \E p \in Savers : save_open(p)
    \/ \E p \in Savers : save_dump(p)
    \/ \E p \in Savers : save_close(p)
    \/ \E p \in Savers : save_crash(p)
    \/ file_load

SpecFile == InitFile /\ [][NextFile]_vars

\* the life of one Key object: it is constructed, then its methods are called
InitKey ==
    /\ ms_signers = <<>>
    /\ ms_threshold = 0
    /\ ms_prefix = DefaultSs58Prefix
    /\ ms_key_tools = NotCalled
    /\ ms_init_network = InitNotCalled
    /\ ms_prev = NoPrev
    /\ ms_op = "none"
    /\ v_file = NoFile
    /\ v_saved = NoSaved
    /\ v_tamper = "none"
    /\ v_out = NoOut
    /\ v_stdout = None
    /\ v_draws = 0
    /\ v_enc_log = <<>>
    /\ f_prior = NoFile
    /\ f_job = [p \in Savers |-> NoSaved]
    /\ f_pc = [p \in Savers |-> "idle"]
    /\ f_text = [p \in Savers |-> <<>>]
    /\ f_buf = [p \in Savers |-> <<>>]
    /\ f_load = NoLoad
    /\ k_key = NoKey
    /\ k_first = NoFirst
    /\ k_op = "none"
    /\ k_exc = "none"

NextKey ==
    \/ key_init
    \/ key_from_secret_phrase
    \/ key_from_public
    \/ key_derive_public_ss58
    \/ key_to_json
    \/ key_encrypt
    \/ key_save

SpecKey == InitKey /\ [][NextKey]_vars

-----------------------------------------------------------------------------
(* Multisig derivation: the threshold and the order of the signers *)

ThresholdOutOfRange == ms_threshold < 1 \/ ms_threshold > Len(ms_signers)

\* C1: multisig_address, in key_tools.py and in init_network.py, fails (any
\* exception is taken for InvalidThreshold) and returns no account id and no
\* address whenever threshold < 1 or threshold > number of signers.
C1_InvalidThresholdRejected ==
    ThresholdOutOfRange =>
        /\ ms_key_tools.exc # "none"
        /\ ms_key_tools.account_id_hex = NoDigest
        /\ ms_key_tools.ss58_address = NoAddress
        /\ ms_init_network.exc # "none"
        /\ ms_init_network.ss58_address = NoAddress

\* C3: with the same threshold and prefix, multisig_address gives the same
\* outcome (the same account id and the same address, or the same failure)
\* for a list of signers and for any permutation of that list.
C3_OrderIndependent ==
    ms_op = "cmd_multisig_reordered" => ms_key_tools = ms_prev.result

\* three signers with three different keys, given in two different orders,
\* and an address derived from both
C3_Witness ==
    /\ ms_op = "cmd_multisig_reordered"
    /\ Len(ms_signers) = 3
    /\ \A i, j \in 1 .. 3 : i # j => ms_signers[i].account # ms_signers[j].account
    /\ ms_prev.signers # ms_signers
    /\ ms_key_tools.exc = "none"
    /\ ms_prev.result.exc = "none"

-----------------------------------------------------------------------------
(* Key.save on a shared path: what the path holds while saves run *)

\* the path holds the complete text of a blob some saver encrypted
HoldsCompleteBlob(file) ==
    \E p \in Savers : f_text[p] # <<>> /\ file = File(f_text[p])

\* C2: at every point of a save, a crash included, the final path holds its
\* previous content (or is absent) or the complete new blob.
C2_NoPartialFileVisible == v_file = f_prior \/ HoldsCompleteBlob(v_file)

\* C10: two concurrent Key.save calls on one path never interleave their
\* writes: once both are done the file holds exactly one of the two complete
\* blobs, and a Key.load of the file while no save has it open for writing
\* reads a complete blob, never a mixed or truncated one.
NoSaveInProgress ==
    \A p \in Savers :
        f_pc[p] \in {"start", "encrypted", "closed",
                     "raised ValueError", "raised RuntimeError"}
C10_SingleWriter ==
    NoSaveInProgress =>
        /\ (\A p \in Savers : f_pc[p] = "closed") => HoldsCompleteBlob(v_file)
        /\ (f_load.exc # "not called" /\ f_load.seen = v_file /\ v_file.exists)
               => (v_file = f_prior \/ HoldsCompleteBlob(v_file))

-----------------------------------------------------------------------------
(* The vault: round trip, authentication, the blob's fields, the display *)

\* the last command was a key-load of the file as the last save wrote it
LoadedUntampered ==
    v_out.op = "cmd_key_load" /\ v_file.exists /\ v_tamper = "none"

\* C4: Key.decrypt(m.encrypt(pw), pw) returns a Key equal to m in scheme,
\* network, secret_phrase, public_key_hex and ss58_address, for a Key with
\* or without a secret phrase: a key-load with the password of the save
\* returns the Key that was saved.
C4_VaultRoundTrip ==
    (LoadedUntampered /\ v_out.password = v_saved.password) =>
        /\ v_out.exc = "none"
        /\ v_out.key = v_saved.key

\* a Key with a secret phrase was saved and loaded with the same password
C4_Witness ==
    /\ LoadedUntampered
    /\ v_out.password = v_saved.password
    /\ v_saved.key.secret_phrase \in SecretPhrases
    /\ v_out.exc = "none"

\* C5: decrypting with a password other than the one of the save, or a blob
\* with one bit of its ciphertext flipped, fails with InvalidTag in both
\* cases, and no Key is returned or displayed.
C5_AuthenticationFailed ==
    (/\ v_out.op = "cmd_key_load"
     /\ v_file.exists
     /\ \/ v_tamper = "none" /\ v_out.password # v_saved.password
        \/ v_tamper \in FlipKinds)
        => /\ v_out.exc = "InvalidTag"
           /\ v_out.key = NoKey
           /\ v_stdout = None

\* a blob with a flipped ciphertext bit was loaded with the right password
C5_Witness ==
    /\ v_out.op = "cmd_key_load"
    /\ v_tamper \in FlipKinds
    /\ v_out.password = v_saved.password
    /\ v_out.exc = "InvalidTag"

\* C6: a blob whose version is not 1, or is absent, is rejected with an
\* error, even when the rest is valid and the password is right.
C6_VersionFailsClosed ==
    (v_out.op = "cmd_key_load" /\ v_tamper \in VersionKinds) => v_out.exc # "none"

\* the exceptions taken for MalformedBlob
MalformedBlobErrors ==
    {"TypeError", "KeyError", "binascii.Error", "ValueError", "AttributeError"}

\* C7: Key.decrypt of a blob with one of salt, params, nonce, ciphertext
\* missing or malformed fails with MalformedBlob, and of a blob with an
\* unknown kdf with UnsupportedKdf; no Key is returned.
C7_MalformedBlobRejected ==
    v_out.op = "cmd_key_load" =>
        /\ v_tamper \in MissingKinds \cup MalformedKinds
               => v_out.exc \in MalformedBlobErrors /\ v_out.key = NoKey
        /\ v_tamper \in KdfKinds
               => v_out.exc = "ValueError: Unsupported KDF" /\ v_out.key = NoKey

\* C8: what derive and key-load print without --with-secret has no
\* secret_phrase item and no item whose value is a secret phrase.
C8_NoSecretInDisplay ==
    (v_stdout.t = "dict" /\ ~v_out.with_secret) =>
        /\ ~dict_has(v_stdout, "secret_phrase")
        /\ \A i \in 1 .. Len(v_stdout.v) : v_stdout.v[i][2] \notin SecretPhrases

\* a Key with a secret phrase, saved, loaded and printed without --with-secret
C8_Witness ==
    /\ v_out.op = "cmd_key_load"
    /\ ~v_out.with_secret
    /\ v_out.exc = "none"
    /\ v_out.key.secret_phrase \in SecretPhrases
    /\ v_stdout.t = "dict"

\* C9: every Key.encrypt call draws a salt and a nonce no other call drew,
\* so no two calls seal under the same (derived key, nonce) pair.
C9_FreshSaltAndNonce ==
    \A i, j \in 1 .. Len(v_enc_log) :
        i # j =>
            /\ v_enc_log[i].salt # v_enc_log[j].salt
            /\ v_enc_log[i].nonce # v_enc_log[j].nonce
            /\ <<v_enc_log[i].key, v_enc_log[i].nonce>>
                   # <<v_enc_log[j].key, v_enc_log[j].nonce>>

\* the same Key encrypted twice with the same password
C9_Witness ==
    /\ Len(v_enc_log) >= 2
    /\ v_enc_log[1].key.password = v_enc_log[2].key.password
    /\ v_enc_log[1].payload = v_enc_log[2].payload

-----------------------------------------------------------------------------
(* Multisig derivation: the bytes that are hashed *)

\* the decoded keys of the signers, in the order given
SignerKeys == [i \in 1 .. Len(ms_signers) |-> ms_signers[i].account]

\* s is in ascending lexicographic order of unsigned bytes
Ascending(s) == \A i \in 1 .. Len(s) - 1 : s[i] = s[i + 1] \/ BytesLess(s[i], s[i + 1])

\* the bytes hashed are a tag of tag_len bytes that reads "modlpy/utilisig",
\* then the signers' 32-byte keys in ascending order, one per signer given,
\* then the threshold as 2 bytes, little-endian; and another threshold in
\* range gives other bytes and another account id
DigestInputLayout(tag_len) ==
    LET data == ms_key_tools.account_id_hex.data
        n == Len(ms_signers)
        key(i) == SubSeq(data, tag_len + AccountIdLen * (i - 1) + 1,
                         tag_len + AccountIdLen * i)
        keys == [i \in 1 .. n |-> key(i)]
    IN  /\ Len(data) = tag_len + AccountIdLen * n + ThresholdBytes
        /\ SubSeq(data, 1, tag_len) = tag
        /\ Ascending(keys)
        /\ \A k \in {SignerKeys[i] : i \in 1 .. n} :
               Cardinality({i \in 1 .. n : keys[i] = k})
                   = Cardinality({i \in 1 .. n : SignerKeys[i] = k})
        /\ data[Len(data) - 1] = ms_threshold % 256
        /\ data[Len(data)] = ms_threshold \div 256
        /\ \A other \in 1 .. n :
               other # ms_threshold =>
                   LET res == key_tools_multisig_address(ms_signers, other, ms_prefix)
                   IN  /\ res.exc = "none"
                       /\ res.account_id_hex.data # data
                       /\ res.account_id_hex # ms_key_tools.account_id_hex

RECURSIVE Deduplicated(_)
Deduplicated(signers) ==
    IF signers = <<>> THEN <<>>
    ELSE LET n == Len(signers)
             front == Deduplicated(SubSeq(signers, 1, n - 1))
         IN  IF \E i \in 1 .. n - 1 : signers[i].account = signers[n].account
                 THEN front
             ELSE Append(front, signers[n])

HasDuplicates == Len(Deduplicated(ms_signers)) < Len(ms_signers)

\* C13: multisig_address does not deduplicate signers. The bytes hashed hold
\* the key of a repeated signer once per occurrence, so with a repeated
\* signer the bytes and the account id differ from those of the list without
\* the repetitions at the same threshold; and whether the call fails does not
\* depend on the repetitions.
C13_DuplicatesHashed ==
    ms_key_tools.exc # "not called" =>
        LET data == ms_key_tools.account_id_hex.data
            n == Len(ms_signers)
            once == key_tools_multisig_address(Deduplicated(ms_signers),
                                               ms_threshold, ms_prefix)
        IN  /\ once.exc = ms_key_tools.exc
            /\ ms_key_tools.exc = "none" =>
                   /\ Len(data) = Len(tag) + AccountIdLen * n + ThresholdBytes
                   /\ \A k \in {SignerKeys[i] : i \in 1 .. n} :
                          Cardinality({i \in 1 .. n :
                              SubSeq(data, Len(tag) + AccountIdLen * (i - 1) + 1,
                                     Len(tag) + AccountIdLen * i) = k})
                              = Cardinality({i \in 1 .. n : SignerKeys[i] = k})
                   /\ HasDuplicates =>
                          /\ once.account_id_hex.data # data
                          /\ once.account_id_hex # ms_key_tools.account_id_hex
                          /\ once.ss58_address # ms_key_tools.ss58_address

\* [A, A, B] with threshold 3: an address is derived, from three keys
C13_Witness ==
    /\ ms_key_tools.exc = "none"
    /\ Len(ms_signers) = 3
    /\ Len(Deduplicated(ms_signers)) = 2
    /\ ms_threshold = 3

\* C14: the two copies of the derivation agree. On the same signers,
\* threshold and prefix, init_network.multisig_address returns the
\* ss58_address that key_tools.multisig_address returns, and raises when it
\* raises; so the sudo key init_network's main computes for --signer and
\* --threshold is the address the multisig command of key_tools prints for
\* them with prefix 42.
C14_CopiesAgree ==
    LET key_tools == key_tools_multisig_address(ms_signers, ms_threshold, ms_prefix)
        init_network == init_network_multisig_address(ms_signers, ms_threshold,
                                                      ms_prefix)
    IN  /\ init_network.exc = key_tools.exc
        /\ init_network.ss58_address = key_tools.ss58_address
        /\ ms_key_tools.exc # "not called" => ms_key_tools = key_tools
        /\ (/\ ms_key_tools.exc # "not called"
            /\ ms_init_network.exc \notin {"not called", "SystemExit"}
            /\ ms_prefix = DefaultSs58Prefix)
               => /\ ms_init_network.exc = ms_key_tools.exc
                  /\ ms_init_network.ss58_address = ms_key_tools.ss58_address

\* main of init_network and the multisig command both derived an address
\* from the same two or more signers, with prefix 42
C14_Witness ==
    /\ ms_key_tools.exc = "none"
    /\ ms_init_network.exc = "none"
    /\ ms_prefix = DefaultSs58Prefix
    /\ Len(ms_signers) >= 2
    /\ ms_threshold \in 1 .. Len(ms_signers)
    /\ ms_init_network.ss58_address = ms_key_tools.ss58_address

-----------------------------------------------------------------------------
(* The Key object's public fields *)

\* C11: once public_key_hex or ss58_address of a Key object has a value, no
\* later operation on the object (derive_public_ss58, to_json, encrypt, save)
\* changes it, and the object never has one of the two set and the other
\* unset.
C11_PublicFieldsImmutable ==
    k_op # "none" =>
        /\ k_first.public_key_hex # None
               => k_key.public_key_hex = k_first.public_key_hex
        /\ k_first.ss58_address # None
               => k_key.ss58_address = k_first.ss58_address
        /\ (k_key.public_key_hex = None) <=> (k_key.ss58_address = None)

-----------------------------------------------------------------------------
(* Key.save: what a save that fails before writing does to the file *)

RaisedBeforeWriting == {"raised ValueError", "raised RuntimeError"}

\* C15: a Key.save that fails before writing leaves the file at path as it
\* was: the step in which it raises, for passwords that differ or for an
\* encryption that fails, does not create, truncate or modify the file; and
\* the step that opens the file for writing is taken only with the complete
\* blob already produced.
C15_FailedSaveLeavesFile ==
    [][\A p \in Savers :
          /\ (f_pc'[p] \in RaisedBeforeWriting /\ f_pc[p] \notin RaisedBeforeWriting)
                 => v_file' = v_file
          /\ (f_pc'[p] = "opened" /\ f_pc[p] # "opened")
                 => /\ f_text[p] # <<>>
                    /\ ~json_loads_raises(f_text[p])
                    /\ json_loads(f_text[p]).t = "dict"]_vars

\* a save has raised before writing, and the file still holds the blob of the
\* earlier save
C15_Witness ==
    /\ \E p \in Savers : f_pc[p] \in RaisedBeforeWriting
    /\ \A p \in Savers : f_pc[p] \in RaisedBeforeWriting \cup {"start"}
    /\ v_file.exists
    /\ v_file = f_prior

=============================================================================
